---- MODULE Spec2Model ----
(***************************************************************************)
(* Model of the dnspod-go client services: DomainsService (List, Create,   *)
(* Get, Delete) and RecordsService (List, Create, Get, Update, Delete).    *)
(*                                                                         *)
(* Every operation builds a url.Values payload on top of the client's      *)
(* common parameters, hands it to client.post together with a remote       *)
(* method name and an envelope to decode into, and then interprets the     *)
(* transport error and the envelope's status code.  A call is modelled in  *)
(* two steps: the operation's action runs the handler up to and including  *)
(* the call of post; PostReturns is the transport coming back and the      *)
(* handler running to its return statement.  Between the two steps other   *)
(* callers may run, which is the interleaving a caller of the library can  *)
(* produce with goroutines.                                                *)
(***************************************************************************)
EXTENDS Integers, Sequences, FiniteSets, TLC

VARIABLES
    commonParams,   \* client.CommonParams: key -> value, fixed at construction
    pc,             \* per caller: "idle", "posted", "done", "panicked"
    op,             \* per caller: the operation of the current call
    args,           \* per caller: the arguments of the current call
    method,         \* per caller: method name handed to post
    payload,        \* per caller: url.Values handed to post (key -> sequence of values)
    posts,          \* per caller: number of post calls of the current call
    reply,          \* per caller: what post returned (res, err, decoded envelope)
    ret             \* per caller: what the operation returned

vars == <<commonParams, pc, op, args, method, payload, posts, reply, ret>>

----------------------------------------------------------------------------
(* Bounds *)

\* integers handed to strconv.Itoa range over -1 .. MaxInt
MaxInt == 10
\* number of concurrent callers in SpecConc
NumCallers == 2

----------------------------------------------------------------------------
(* Method names *)

methodDomainList == "Domain.List"
methodDomainCreate == "Domain.Create"
methodDomainInfo == "Domain.Info"
methodDomainRemove == "Domain.Remove"
methodRecordList == "Record.List"
methodRecordCreate == "Record.Create"
methodRecordInfo == "Record.Info"
methodRecordRemove == "Record.Remove"
methodRecordModify == "Record.Modify"

----------------------------------------------------------------------------
(* Values *)

\* the nil error and the nil *Response
NilErr == "<nil>"
NilRes == "<nil response>"

\* the empty url.Values
EmptyValues == [k \in {} |-> <<>>]

\* url.Values.Add: append the value to the key's list
Add(v, k, s) ==
    IF k \in DOMAIN v
    THEN [v EXCEPT ![k] = Append(@, s)]
    ELSE [x \in DOMAIN v \cup {k} |-> IF x = k THEN <<s>> ELSE v[x]]

\* url.Values.Set: replace the key's list by the single value
Set(v, k, s) ==
    [x \in DOMAIN v \cup {k} |-> IF x = k THEN <<s>> ELSE v[x]]

\* variant: the value is added whether or not it is empty
AddAlways(v, k, s) == Add(v, k, s)

\* if s != "" { payload.Add(k, s) }
AddIfSet(v, k, s) == IF s # "" THEN Add(v, k, s) ELSE v

\* strconv.Itoa: the decimal representation of an int
Digit(d) == SubSeq("0123456789", d + 1, d + 1)

RECURSIVE Itoa(_)
Itoa(n) ==
    IF n < 0 THEN "-" \o Itoa(-n)
    ELSE IF n < 10 THEN Digit(n)
    ELSE Itoa(n \div 10) \o Digit(n % 10)

\* fmt.Errorf("<prefix>: %s", message)
Errorf(prefix, message) == prefix \o ": " \o message

\* CommonParams.toPayLoad: a fresh url.Values holding the common parameters
toPayLoad(cp) == [k \in DOMAIN cp |-> <<cp[k]>>]

\* zero values of the decoded entities
ZeroEntity == [ID |-> "", Name |-> ""]
NilSlice == <<>>

----------------------------------------------------------------------------
(* client.post: deliver the payload under the method name.  The call        *)
(* blocks until PostReturns.                                               *)

post(c, o, a, m, p) ==
    /\ pc' = [pc EXCEPT ![c] = "posted"]
    /\ op' = [op EXCEPT ![c] = o]
    /\ args' = [args EXCEPT ![c] = a]
    /\ method' = [method EXCEPT ![c] = m]
    /\ payload' = [payload EXCEPT ![c] = p]
    /\ posts' = [posts EXCEPT ![c] = 1]
    /\ reply' = [reply EXCEPT ![c] = <<>>]
    /\ ret' = [ret EXCEPT ![c] = <<>>]
    /\ UNCHANGED commonParams

\* a caller may start a call when it is not inside one
CanCall(c) == pc[c] = "idle"

----------------------------------------------------------------------------
(* DomainsService *)

\* the part of DomainsService.List after post has returned
DomainsListReturn(r) ==
    IF r.err # NilErr
    THEN [entity |-> NilSlice, res |-> r.res, err |-> r.err]
    ELSE IF r.code # "1"
    THEN [entity |-> NilSlice, res |-> NilRes,
          err |-> Errorf("could not get domains", r.message)]
    ELSE [entity |-> r.data, res |-> r.res, err |-> NilErr]

DomainsList(c) ==
    /\ CanCall(c)
    /\ LET p == toPayLoad(commonParams)
       IN post(c, "DomainsList", <<>>, methodDomainList, p)

\* the part of DomainsService.Create after post has returned
DomainsCreateReturn(r) ==
    IF r.err # NilErr
    THEN [entity |-> ZeroEntity, res |-> r.res, err |-> r.err]
    ELSE [entity |-> r.data, res |-> r.res, err |-> NilErr]

\* json.Number is a string type; GroupID.String() is the string itself
DomainsCreate(c, domainAttributes) ==
    /\ CanCall(c)
    /\ LET p0 == toPayLoad(commonParams)
           p1 == Set(p0, "domain", domainAttributes.Name)
           p2 == Set(p1, "group_id", domainAttributes.GroupID)
           p3 == Set(p2, "is_mark", domainAttributes.IsMark)
       IN post(c, "DomainsCreate", [domainAttributes |-> domainAttributes],
               methodDomainCreate, p3)

\* variant: the status code is checked as in DomainsService.List
DomainsGetReturnChecked(r) ==
    IF r.err # NilErr
    THEN [entity |-> ZeroEntity, res |-> r.res, err |-> r.err]
    ELSE IF r.code # "1"
    THEN [entity |-> r.data, res |-> NilRes,
          err |-> Errorf("could not get domains", r.message)]
    ELSE [entity |-> r.data, res |-> r.res, err |-> NilErr]

\* the part of DomainsService.Get after post has returned
DomainsGetReturn(r) ==
    IF r.err # NilErr
    THEN [entity |-> ZeroEntity, res |-> r.res, err |-> r.err]
    ELSE [entity |-> r.data, res |-> r.res, err |-> NilErr]

\* variant: the fields are set in the client's common parameters themselves
DomainsGetSharedParams(c, id, domain) ==
    /\ CanCall(c)
    /\ LET cp1 == [k \in DOMAIN commonParams \cup {"domain_id", "domain"} |->
                     IF k = "domain_id" THEN id
                     ELSE IF k = "domain" THEN domain ELSE commonParams[k]]
       IN /\ commonParams' = cp1
          /\ pc' = [pc EXCEPT ![c] = "posted"]
          /\ op' = [op EXCEPT ![c] = "DomainsGet"]
          /\ args' = [args EXCEPT ![c] = [id |-> id, domain |-> domain]]
          /\ method' = [method EXCEPT ![c] = methodDomainInfo]
          /\ payload' = [payload EXCEPT ![c] = toPayLoad(cp1)]
          /\ posts' = [posts EXCEPT ![c] = 1]
          /\ reply' = [reply EXCEPT ![c] = <<>>]
          /\ ret' = [ret EXCEPT ![c] = <<>>]

DomainsGet(c, id, domain) ==
    /\ CanCall(c)
    /\ LET p0 == toPayLoad(commonParams)
           p1 == Set(p0, "domain_id", id)
           p2 == Set(p1, "domain", domain)
       IN post(c, "DomainsGet", [id |-> id, domain |-> domain],
               methodDomainInfo, p2)

\* DomainsService.Delete returns what post returned
DomainsDeleteReturn(r) == [res |-> r.res, err |-> r.err]

DomainsDelete(c, id, domain) ==
    /\ CanCall(c)
    /\ LET p0 == toPayLoad(commonParams)
           p1 == Set(p0, "domain_id", id)
           p2 == Set(p1, "domain", domain)
       IN post(c, "DomainsDelete", [id |-> id, domain |-> domain],
               methodDomainRemove, p2)

----------------------------------------------------------------------------
(* RecordsService *)

\* RecordParam.ToURLValues adds nothing
RecordParamToURLValues(rp, values) == values

\* ListParams.ToURLValues, for a non-nil embedded RecordParam
ListParamsToURLValues(p, values) ==
    LET v0 == RecordParamToURLValues(p.RecordParam[1], values)
        v1 == AddIfSet(v0, "offset", p.Offset)
        v2 == AddIfSet(v1, "length", p.Length)
        v3 == AddIfSet(v2, "sub_domain", p.SubDomain)
        v4 == AddIfSet(v3, "record_type", p.RecordType)
        v5 == AddIfSet(v4, "record_line", p.RecordLine)
        v6 == AddIfSet(v5, "record_line_id", p.RecordLineID)
        v7 == AddIfSet(v6, "keyword", p.keyword)
    IN v7

\* variant: only code "1" is a success
RecordsListReturnOnly1(r) ==
    IF r.err # NilErr
    THEN [entity |-> NilSlice, res |-> r.res, err |-> r.err]
    ELSE IF r.code # "1"
    THEN [entity |-> NilSlice, res |-> NilRes,
          err |-> Errorf("could not get domains", r.message)]
    ELSE [entity |-> r.data, res |-> r.res, err |-> NilErr]

\* the part of RecordsService.List after post has returned
RecordsListReturn(r) ==
    IF r.err # NilErr
    THEN [entity |-> NilSlice, res |-> r.res, err |-> r.err]
    ELSE IF r.code # "1" /\ r.code # "10"
    THEN [entity |-> NilSlice, res |-> NilRes,
          err |-> Errorf("could not get domains", r.message)]
    ELSE [entity |-> r.data, res |-> r.res, err |-> NilErr]

\* p.RecordParam is an embedded *RecordParam, <<>> when nil: calling its
\* value-receiver method dereferences it, and the call panics before post
RecordsList(c, p) ==
    /\ CanCall(c)
    /\ IF p.RecordParam = <<>>
       THEN /\ pc' = [pc EXCEPT ![c] = "panicked"]
            /\ op' = [op EXCEPT ![c] = "RecordsList"]
            /\ args' = [args EXCEPT ![c] = [p |-> p]]
            /\ method' = [method EXCEPT ![c] = ""]
            /\ payload' = [payload EXCEPT ![c] = EmptyValues]
            /\ posts' = [posts EXCEPT ![c] = 0]
            /\ reply' = [reply EXCEPT ![c] = <<>>]
            /\ ret' = [ret EXCEPT ![c] = <<>>]
            /\ UNCHANGED commonParams
       ELSE LET p0 == toPayLoad(commonParams)
                p1 == ListParamsToURLValues(p, p0)
                p2 == AddIfSet(p1, "domain_id", p.RecordParam[1].DomainID)
                p3 == AddIfSet(p2, "domain", p.RecordParam[1].Domain)
                p4 == AddIfSet(p3, "record_type", p.RecordType)
            IN post(c, "RecordsList", [p |-> p], methodRecordList, p4)

\* the optional record attributes of Create and Update
AddRecordAttributes(v, recordAttributes) ==
    LET v1 == AddIfSet(v, "sub_domain", recordAttributes.Name)
        v2 == AddIfSet(v1, "record_type", recordAttributes.Type)
        v3 == AddIfSet(v2, "record_line", recordAttributes.Line)
        v4 == AddIfSet(v3, "record_line_id", recordAttributes.LineID)
        v5 == AddIfSet(v4, "value", recordAttributes.Value)
        v6 == AddIfSet(v5, "mx", recordAttributes.MX)
        v7 == AddIfSet(v6, "ttl", recordAttributes.TTL)
        v8 == AddIfSet(v7, "status", recordAttributes.Status)
    IN v8

\* variant: a weight of zero is taken for an unset weight
AddWeightSentinel(v, Weight) ==
    IF Weight # <<>> /\ Weight[1] # 0 THEN Add(v, "weight", Itoa(Weight[1])) ELSE v

\* if recordAttributes.Weight != nil { payload.Add("weight", strconv.Itoa(*Weight)) }
\* Weight is <<>> when nil and <<n>> when it points to n
AddWeight(v, Weight) ==
    IF Weight # <<>> THEN Add(v, "weight", Itoa(Weight[1])) ELSE v

\* the part of RecordsService.Create after post has returned
RecordsCreateReturn(r) ==
    IF r.err # NilErr
    THEN [entity |-> ZeroEntity, res |-> r.res, err |-> r.err]
    ELSE IF r.code # "1"
    THEN [entity |-> r.data, res |-> NilRes,
          err |-> Errorf("could not create domains", r.message)]
    ELSE [entity |-> r.data, res |-> r.res, err |-> NilErr]

RecordsCreate(c, domain, domainId, recordAttributes) ==
    /\ CanCall(c)
    /\ LET p0 == toPayLoad(commonParams)
           p1 == Add(p0, "domain", domain)
           p2 == Add(p1, "domain_id", domainId)
           p3 == AddRecordAttributes(p2, recordAttributes)
           p4 == AddWeight(p3, recordAttributes.Weight)
       IN post(c, "RecordsCreate",
               [domain |-> domain, domainId |-> domainId,
                recordAttributes |-> recordAttributes],
               methodRecordCreate, p4)

\* variant: the status code is not checked
RecordsGetReturnUnchecked(r) ==
    IF r.err # NilErr
    THEN [entity |-> ZeroEntity, res |-> r.res, err |-> r.err]
    ELSE [entity |-> r.data, res |-> r.res, err |-> NilErr]

\* the part of RecordsService.Get after post has returned
RecordsGetReturn(r) ==
    IF r.err # NilErr
    THEN [entity |-> ZeroEntity, res |-> r.res, err |-> r.err]
    ELSE IF r.code # "1"
    THEN [entity |-> r.data, res |-> NilRes,
          err |-> Errorf("could not get domains", r.message)]
    ELSE [entity |-> r.data, res |-> r.res, err |-> NilErr]

RecordsGet(c, domain, domainId, recordID) ==
    /\ CanCall(c)
    /\ LET p0 == toPayLoad(commonParams)
           p1 == Add(p0, "domain", domain)
           p2 == Add(p1, "domain_id", domainId)
           p3 == Add(p2, "record_id", Itoa(recordID))
       IN post(c, "RecordsGet",
               [domain |-> domain, domainId |-> domainId, recordID |-> recordID],
               methodRecordInfo, p3)

\* variant: on a transport error the decoded record is returned
RecordsUpdateReturnKeepsData(r) ==
    IF r.err # NilErr
    THEN [entity |-> r.data, res |-> r.res, err |-> r.err]
    ELSE IF r.code # "1"
    THEN [entity |-> r.data, res |-> NilRes,
          err |-> Errorf("could not get domains", r.message)]
    ELSE [entity |-> r.data, res |-> r.res, err |-> NilErr]

\* the part of RecordsService.Update after post has returned
RecordsUpdateReturn(r) ==
    IF r.err # NilErr
    THEN [entity |-> ZeroEntity, res |-> r.res, err |-> r.err]
    ELSE IF r.code # "1"
    THEN [entity |-> r.data, res |-> NilRes,
          err |-> Errorf("could not get domains", r.message)]
    ELSE [entity |-> r.data, res |-> r.res, err |-> NilErr]

RecordsUpdate(c, domainId, domain, recordID, recordAttributes) ==
    /\ CanCall(c)
    /\ LET p0 == toPayLoad(commonParams)
           p1 == Add(p0, "domain_id", domainId)
           p2 == Add(p1, "domain", domain)
           p3 == Add(p2, "record_id", recordID)
           p4 == AddRecordAttributes(p3, recordAttributes)
           p5 == AddWeight(p4, recordAttributes.Weight)
       IN post(c, "RecordsUpdate",
               [domainId |-> domainId, domain |-> domain, recordID |-> recordID,
                recordAttributes |-> recordAttributes],
               methodRecordModify, p5)

\* the part of RecordsService.Delete after post has returned
RecordsDeleteReturn(r) ==
    IF r.err # NilErr
    THEN [res |-> r.res, err |-> r.err]
    ELSE IF r.code # "1"
    THEN [res |-> NilRes, err |-> Errorf("could not get domains", r.message)]
    ELSE [res |-> r.res, err |-> NilErr]

RecordsDelete(c, domainId, domain, recordID) ==
    /\ CanCall(c)
    /\ LET p0 == toPayLoad(commonParams)
           p1 == Add(p0, "domain_id", Itoa(domainId))
           p2 == Add(p1, "domain", domain)
           p3 == Add(p2, "record_id", recordID)
       IN post(c, "RecordsDelete",
               [domainId |-> domainId, domain |-> domain, recordID |-> recordID],
               methodRecordRemove, p3)

----------------------------------------------------------------------------
(* post returns: the operation runs from the call of post to its return *)

Return(o, r) ==
    CASE o = "DomainsList" -> DomainsListReturn(r)
      [] o = "DomainsCreate" -> DomainsCreateReturn(r)
      [] o = "DomainsGet" -> DomainsGetReturn(r)
      [] o = "DomainsDelete" -> DomainsDeleteReturn(r)
      [] o = "RecordsList" -> RecordsListReturn(r)
      [] o = "RecordsCreate" -> RecordsCreateReturn(r)
      [] o = "RecordsGet" -> RecordsGetReturn(r)
      [] o = "RecordsUpdate" -> RecordsUpdateReturn(r)
      [] o = "RecordsDelete" -> RecordsDeleteReturn(r)

\* variant: a failed post is issued once more
PostReturnsRetry(c, r) ==
    /\ pc[c] = "posted"
    /\ reply' = [reply EXCEPT ![c] = r]
    /\ IF r.err # NilErr /\ posts[c] < 2
       THEN /\ posts' = [posts EXCEPT ![c] = @ + 1]
            /\ UNCHANGED <<pc, ret>>
       ELSE /\ ret' = [ret EXCEPT ![c] = Return(op[c], r)]
            /\ pc' = [pc EXCEPT ![c] = "done"]
            /\ UNCHANGED posts
    /\ UNCHANGED <<commonParams, op, args, method, payload>>

PostReturns(c, r) ==
    /\ pc[c] = "posted"
    /\ reply' = [reply EXCEPT ![c] = r]
    /\ ret' = [ret EXCEPT ![c] = Return(op[c], r)]
    /\ pc' = [pc EXCEPT ![c] = "done"]
    /\ UNCHANGED <<commonParams, op, args, method, payload, posts>>

\* the operation's return: the caller has the results and the call's locals
\* (payload, envelope) are gone; the caller is free to call again
Returned(c) ==
    /\ pc[c] = "done"
    /\ pc' = [pc EXCEPT ![c] = "idle"]
    /\ op' = [op EXCEPT ![c] = ""]
    /\ args' = [args EXCEPT ![c] = <<>>]
    /\ method' = [method EXCEPT ![c] = ""]
    /\ payload' = [payload EXCEPT ![c] = EmptyValues]
    /\ posts' = [posts EXCEPT ![c] = 0]
    /\ reply' = [reply EXCEPT ![c] = <<>>]
    /\ ret' = [ret EXCEPT ![c] = <<>>]
    /\ UNCHANGED commonParams

----------------------------------------------------------------------------
(* Inputs *)

\* configurations of the common parameters (authentication and identity)
CommonConfigs ==
    { [login_token |-> "id,token"],
      [login_token |-> "id,token", format |-> "json"] }

Ints == -1 .. MaxInt

\* *int: <<>> is nil, <<n>> points to n
Weights == {<<>>} \cup {<<n>> : n \in Ints}

DomainAttributes ==
    [Name : {"", "example.com"}, GroupID : {"", "3"}, IsMark : {"", "yes"}]

DomainIds == {"", "62"}
DomainNames == {"", "example.com"}
RecordIds == {"", "7"}

\* how a record operation addresses its domain: by neither, by name and id
RecordDomains ==
    { [domain |-> "", domainId |-> ""],
      [domain |-> "example.com", domainId |-> "62"] }

\* *RecordParam: <<>> is nil
RecordParams ==
    {<<>>} \cup {<<rp>> : rp \in [DomainID : DomainIds, Domain : DomainNames]}

ListParamsSet ==
    [RecordParam : RecordParams,
     Offset : {"", "0"}, Length : {"", "20"}, SubDomain : {"", "www"},
     RecordType : {"", "A"}, RecordLine : {"", "default"},
     RecordLineID : {"", "10=0"}, keyword : {"", "mail"}]

RecordAttributes ==
    [Name : {"", "www"}, Type : {"", "A"}, Line : {"", "default"},
     LineID : {"", "10=0"}, Value : {"", "1.2.3.4"}, MX : {"", "5"},
     TTL : {"", "600"}, Status : {"", "enable"}, Weight : Weights]

\* a decoded entity other than the zero value
Entity1 == [ID |-> "1", Name |-> "example.com"]

\* the transport's response object
Res == "response"

\* decoded status blocks
Statuses ==
    { [code |-> "1", message |-> "OK"],
      [code |-> "10", message |-> "No records"],
      [code |-> "6", message |-> "no such record"],
      [code |-> "", message |-> ""] }

\* what post can return to an operation: without an error the response and
\* any decoded envelope; with an error (network, HTTP or decoding) no
\* response and an untouched envelope, or a response and a decoded envelope
Replies(zero, nonzero) ==
    { [res |-> Res, err |-> NilErr, code |-> st.code, message |-> st.message,
       data |-> d] : st \in Statuses, d \in {zero, nonzero} }
    \cup
    { [res |-> NilRes, err |-> "Post https://dnsapi.cn: timeout",
       code |-> "", message |-> "", data |-> zero],
      [res |-> Res, err |-> "Post https://dnsapi.cn: 502 Bad Gateway",
       code |-> "1", message |-> "OK", data |-> nonzero] }

IsList(o) == o \in {"DomainsList", "RecordsList"}

\* the envelope of a list operation holds a slice, the others one entity
RepliesOf(o) ==
    IF IsList(o) THEN Replies(NilSlice, <<Entity1>>)
    ELSE Replies(ZeroEntity, Entity1)

----------------------------------------------------------------------------
(* One caller, every combination of arguments *)

InitCallers(cs) ==
    /\ commonParams \in CommonConfigs
    /\ pc = [c \in cs |-> "idle"]
    /\ op = [c \in cs |-> ""]
    /\ args = [c \in cs |-> <<>>]
    /\ method = [c \in cs |-> ""]
    /\ payload = [c \in cs |-> EmptyValues]
    /\ posts = [c \in cs |-> 0]
    /\ reply = [c \in cs |-> <<>>]
    /\ ret = [c \in cs |-> <<>>]

Init == InitCallers({1})

\* the calls a caller can start; the arguments are drawn only when the
\* caller is free to call
Calls(c) ==
    \/ DomainsList(c)
    \/ \E a \in DomainAttributes : DomainsCreate(c, a)
    \/ \E id \in DomainIds, d \in DomainNames : DomainsGet(c, id, d)
    \/ \E id \in DomainIds, d \in DomainNames : DomainsDelete(c, id, d)
    \/ \E p \in ListParamsSet : RecordsList(c, p)
    \/ \E d \in RecordDomains, a \in RecordAttributes :
          RecordsCreate(c, d.domain, d.domainId, a)
    \/ \E d \in DomainNames, id \in DomainIds, n \in Ints :
          RecordsGet(c, d, id, n)
    \/ \E d \in RecordDomains, a \in RecordAttributes :
          RecordsUpdate(c, d.domainId, d.domain, "7", a)
    \/ \E n \in Ints, d \in DomainNames, rid \in RecordIds :
          RecordsDelete(c, n, d, rid)

Next ==
    \E c \in DOMAIN pc :
        \/ CanCall(c) /\ Calls(c)
        \/ \E r \in RepliesOf(op[c]) : PostReturns(c, r)
        \/ Returned(c)

Spec == Init /\ [][Next]_vars

----------------------------------------------------------------------------
(* Several callers on one client, a few calls each with its own arguments *)

Callers == 1 .. NumCallers

ConcDomainAttributes ==
    { [Name |-> "a.com", GroupID |-> "", IsMark |-> ""],
      [Name |-> "b.org", GroupID |-> "3", IsMark |-> "yes"] }

ConcListParams ==
    { [RecordParam |-> <<>>, Offset |-> "", Length |-> "", SubDomain |-> "",
       RecordType |-> "", RecordLine |-> "", RecordLineID |-> "", keyword |-> ""],
      [RecordParam |-> <<[DomainID |-> "62", Domain |-> "a.com"]>>,
       Offset |-> "0", Length |-> "20", SubDomain |-> "www",
       RecordType |-> "", RecordLine |-> "default", RecordLineID |-> "",
       keyword |-> "mail"] }

ConcRecordAttributes ==
    { [Name |-> "www", Type |-> "A", Line |-> "", LineID |-> "10=0",
       Value |-> "1.2.3.4", MX |-> "", TTL |-> "600", Status |-> "",
       Weight |-> <<0>>],
      [Name |-> "", Type |-> "MX", Line |-> "default", LineID |-> "",
       Value |-> "mail.b.org", MX |-> "5", TTL |-> "", Status |-> "enable",
       Weight |-> <<>>] }

\* post returns success, an API failure or a transport failure
ConcReplies(o) ==
    { r \in RepliesOf(o) :
        \/ r.err # NilErr /\ r.res = NilRes
        \/ r.err = NilErr /\ r.code \in {"1", "6"} /\ r.data \in {<<Entity1>>, Entity1} }

ConcCalls(c) ==
    \/ DomainsList(c)
    \/ \E a \in ConcDomainAttributes : DomainsCreate(c, a)
    \/ DomainsGet(c, "62", "a.com")
    \/ DomainsDelete(c, "63", "b.org")
    \/ \E p \in ConcListParams : RecordsList(c, p)
    \/ \E a \in ConcRecordAttributes : RecordsCreate(c, "a.com", "62", a)
    \/ RecordsGet(c, "b.org", "63", MaxInt)
    \/ \E a \in ConcRecordAttributes : RecordsUpdate(c, "63", "b.org", "7", a)
    \/ RecordsDelete(c, MaxInt, "a.com", "8")

InitConc == InitCallers(Callers)

NextConc ==
    \E c \in DOMAIN pc :
        \/ CanCall(c) /\ ConcCalls(c)
        \/ \E r \in ConcReplies(op[c]) : PostReturns(c, r)
        \/ Returned(c)

SpecConc == InitConc /\ [][NextConc]_vars

----------------------------------------------------------------------------
(* Properties *)

\* the caller's payload has been handed to post
Posted(c) == pc[c] \in {"posted", "done"}

\* the operation-specific keys of a payload
OwnKeys(c) == DOMAIN payload[c] \ DOMAIN commonParams

\* sub occurs in s
Contains(s, sub) ==
    \/ sub = ""
    \/ \E i \in 1 .. (Len(s) - Len(sub) + 1) : SubSeq(s, i, i + Len(sub) - 1) = sub

\* the value of a decimal digit, -1 for any other character
DigitValue(ch) ==
    CASE ch = "0" -> 0 [] ch = "1" -> 1 [] ch = "2" -> 2 [] ch = "3" -> 3
      [] ch = "4" -> 4 [] ch = "5" -> 5 [] ch = "6" -> 6 [] ch = "7" -> 7
      [] ch = "8" -> 8 [] ch = "9" -> 9 [] OTHER -> -1

\* s is the canonical decimal numeral of an integer: an optional minus sign,
\* then digits without a leading zero, "0" itself excepted
IsDecimal(s) ==
    LET body == IF Len(s) > 0 /\ SubSeq(s, 1, 1) = "-"
                THEN SubSeq(s, 2, Len(s)) ELSE s
    IN /\ Len(body) > 0
       /\ \A i \in 1 .. Len(body) : DigitValue(SubSeq(body, i, i)) >= 0
       /\ Len(body) > 1 => SubSeq(body, 1, 1) # "0"
       /\ body = "0" => s = "0"

RECURSIVE NatOf(_)
NatOf(s) ==
    IF Len(s) = 0 THEN 0
    ELSE 10 * NatOf(SubSeq(s, 1, Len(s) - 1)) + DigitValue(SubSeq(s, Len(s), Len(s)))

\* the integer a decimal numeral denotes
IntOf(s) ==
    IF SubSeq(s, 1, 1) = "-" THEN 0 - NatOf(SubSeq(s, 2, Len(s))) ELSE NatOf(s)

\* record attribute -> payload key, as the API documents them
RecordAttributeKeys ==
    { <<"Name", "sub_domain">>, <<"Type", "record_type">>,
      <<"Line", "record_line">>, <<"LineID", "record_line_id">>,
      <<"Value", "value">>, <<"MX", "mx">>, <<"TTL", "ttl">>,
      <<"Status", "status">> }

IsCreateOrUpdate(c) == Posted(c) /\ op[c] \in {"RecordsCreate", "RecordsUpdate"}

\* C1: in Records Create and Update an empty optional attribute leaves its
\* key out of the payload, and a non-empty one puts the key in with exactly
\* that value
C1_OptionalAttributes ==
    \A c \in DOMAIN pc :
        IsCreateOrUpdate(c) =>
            \A fk \in RecordAttributeKeys :
                LET v == args[c].recordAttributes[fk[1]]
                IN IF v = ""
                   THEN fk[2] \notin DOMAIN payload[c]
                   ELSE /\ fk[2] \in DOMAIN payload[c]
                        /\ payload[c][fk[2]] = <<v>>

C1_Witness ==
    \E c \in DOMAIN pc :
        /\ pc[c] = "posted" /\ op[c] = "RecordsUpdate"
        /\ args[c].recordAttributes.Name = "www"
        /\ args[c].recordAttributes.Value = ""
        /\ args[c].recordAttributes.TTL = "600"
        /\ "sub_domain" \in DOMAIN payload[c]
        /\ "value" \notin DOMAIN payload[c]

\* C2: in Domains Create an unset GroupID leaves group_id out of the
\* payload, an unset IsMark leaves is_mark out, and no optional field is
\* sent as the empty string
C2_DomainCreateSuppression ==
    \A c \in DOMAIN pc :
        (Posted(c) /\ op[c] = "DomainsCreate") =>
            /\ args[c].domainAttributes.GroupID = "" =>
                  "group_id" \notin DOMAIN payload[c]
            /\ args[c].domainAttributes.IsMark = "" =>
                  "is_mark" \notin DOMAIN payload[c]
            /\ \A k \in {"group_id", "is_mark"} \cap DOMAIN payload[c] :
                  \A i \in 1 .. Len(payload[c][k]) : payload[c][k][i] # ""

\* C3: in Records Create and Update a nil Weight leaves "weight" out of the
\* payload, a Weight pointing to 0 sends "weight" = "0", and a Weight
\* pointing to n sends the decimal numeral of n
C3_Weight ==
    \A c \in DOMAIN pc :
        IsCreateOrUpdate(c) =>
            LET w == args[c].recordAttributes.Weight
            IN IF w = <<>>
               THEN "weight" \notin DOMAIN payload[c]
               ELSE /\ "weight" \in DOMAIN payload[c]
                    /\ Len(payload[c]["weight"]) = 1
                    /\ IsDecimal(payload[c]["weight"][1])
                    /\ IntOf(payload[c]["weight"][1]) = w[1]
                    /\ w[1] = 0 => payload[c]["weight"] = <<"0">>

C3_Witness ==
    \E c \in DOMAIN pc :
        /\ pc[c] = "posted" /\ op[c] = "RecordsCreate"
        /\ args[c].recordAttributes.Weight = <<0>>
        /\ payload[c]["weight"] = <<"0">>

\* post came back to the caller's operation without an error
PostSucceeded(c) == pc[c] = "done" /\ reply[c].err = NilErr

\* post came back to the caller's operation with an error
PostFailed(c) == pc[c] = "done" /\ reply[c].err # NilErr

\* C4: when post succeeds, Records List returns the decoded records and no
\* error for the codes "1" and "10", and for any other code an error
\* containing the server's message and no records
C4_RecordsListCodes ==
    \A c \in DOMAIN pc :
        (PostSucceeded(c) /\ op[c] = "RecordsList") =>
            IF reply[c].code \in {"1", "10"}
            THEN /\ ret[c].err = NilErr
                 /\ ret[c].entity = reply[c].data
            ELSE /\ ret[c].err # NilErr
                 /\ Contains(ret[c].err, reply[c].message)
                 /\ ret[c].entity = <<>>

C4_Witness ==
    \E c \in DOMAIN pc :
        /\ PostSucceeded(c) /\ op[c] = "RecordsList"
        /\ reply[c].code = "10"
        /\ ret[c].err = NilErr

StatusChecked ==
    {"DomainsList", "RecordsCreate", "RecordsGet", "RecordsUpdate", "RecordsDelete"}

\* C5: when post succeeds, Domains List and Records Create, Get, Update and
\* Delete return an error exactly when the code is not "1", and the error's
\* text contains the server's message
C5_StatusError ==
    \A c \in DOMAIN pc :
        (PostSucceeded(c) /\ op[c] \in StatusChecked) =>
            /\ (ret[c].err # NilErr) <=> (reply[c].code # "1")
            /\ ret[c].err # NilErr => Contains(ret[c].err, reply[c].message)

C5_Witness ==
    \E c \in DOMAIN pc :
        /\ PostSucceeded(c) /\ op[c] = "RecordsGet"
        /\ reply[c].code = "6"
        /\ Contains(ret[c].err, "no such record")

StatusUnchecked == {"DomainsCreate", "DomainsGet", "DomainsDelete"}

\* C6: Domains Create, Get and Delete return no error when post returned
\* none, whatever the status code, and otherwise the error post returned
C6_NoStatusError ==
    \A c \in DOMAIN pc :
        (pc[c] = "done" /\ op[c] \in StatusUnchecked) =>
            ret[c].err = reply[c].err

C6_Witness ==
    \E c \in DOMAIN pc :
        /\ PostSucceeded(c) /\ op[c] = "DomainsGet"
        /\ reply[c].code = "6"
        /\ ret[c].err = NilErr

\* C7: when post returns an error, each operation returns that error and
\* post's response, and a nil slice or empty entity, whatever the envelope
\* holds
C7_TransportError ==
    \A c \in DOMAIN pc :
        PostFailed(c) =>
            /\ ret[c].err = reply[c].err
            /\ ret[c].res = reply[c].res
            /\ "entity" \in DOMAIN ret[c] =>
                  ret[c].entity = IF op[c] \in {"DomainsList", "RecordsList"}
                                  THEN <<>> ELSE [ID |-> "", Name |-> ""]

C7_Witness ==
    \E c \in DOMAIN pc :
        /\ PostFailed(c) /\ op[c] = "RecordsUpdate"
        /\ reply[c].res # NilRes
        /\ reply[c].code = "1"
        /\ reply[c].data # ZeroEntity

\* operation -> remote method name, as the API documents them
RemoteMethod(o) ==
    CASE o = "DomainsList" -> "Domain.List"
      [] o = "DomainsCreate" -> "Domain.Create"
      [] o = "DomainsGet" -> "Domain.Info"
      [] o = "DomainsDelete" -> "Domain.Remove"
      [] o = "RecordsList" -> "Record.List"
      [] o = "RecordsCreate" -> "Record.Create"
      [] o = "RecordsGet" -> "Record.Info"
      [] o = "RecordsUpdate" -> "Record.Modify"
      [] o = "RecordsDelete" -> "Record.Remove"

ArgStrings(c) ==
    LET a == args[c]
        attrs(r) == {r[fk[1]] : fk \in RecordAttributeKeys}
    IN CASE op[c] = "DomainsList" -> {}
         [] op[c] = "DomainsCreate" ->
              {a.domainAttributes.Name, a.domainAttributes.GroupID,
               a.domainAttributes.IsMark}
         [] op[c] \in {"DomainsGet", "DomainsDelete"} -> {a.id, a.domain}
         [] op[c] = "RecordsList" ->
              {a.p.Offset, a.p.Length, a.p.SubDomain, a.p.RecordType,
               a.p.RecordLine, a.p.RecordLineID, a.p.keyword}
              \cup {rp.DomainID : rp \in {a.p.RecordParam[i] : i \in DOMAIN a.p.RecordParam}}
              \cup {rp.Domain : rp \in {a.p.RecordParam[i] : i \in DOMAIN a.p.RecordParam}}
         [] op[c] = "RecordsCreate" ->
              {a.domain, a.domainId} \cup attrs(a.recordAttributes)
         [] op[c] = "RecordsGet" -> {a.domain, a.domainId}
         [] op[c] = "RecordsUpdate" ->
              {a.domain, a.domainId, a.recordID} \cup attrs(a.recordAttributes)
         [] op[c] = "RecordsDelete" -> {a.domain, a.recordID}

\* the integers among a call's arguments
ArgInts(c) ==
    LET a == args[c]
    IN CASE op[c] \in {"RecordsCreate", "RecordsUpdate"} ->
              {a.recordAttributes.Weight[i] : i \in DOMAIN a.recordAttributes.Weight}
         [] op[c] = "RecordsGet" -> {a.recordID}
         [] op[c] = "RecordsDelete" -> {a.domainId}
         [] OTHER -> {}

\* the value is one of the call's string arguments or the numeral of one of
\* its integer arguments
FromOwnArguments(c, s) ==
    \/ s \in ArgStrings(c)
    \/ IsDecimal(s) /\ IntOf(s) \in ArgInts(c)

\* C9: no call changes the common parameters; every payload holds each
\* common parameter with its configured value, and beside them only values
\* taken from the arguments of its own call
C9_Frame ==
    /\ [][commonParams' = commonParams]_vars
    /\ [](\A c \in DOMAIN pc :
            Posted(c) =>
                /\ \A k \in DOMAIN commonParams :
                      /\ k \in DOMAIN payload[c]
                      /\ payload[c][k] = <<commonParams[k]>>
                /\ \A k \in OwnKeys(c) :
                      \A i \in 1 .. Len(payload[c][k]) :
                          FromOwnArguments(c, payload[c][k][i]))

C9_Witness ==
    \E c, d \in DOMAIN pc :
        /\ c # d
        /\ pc[c] = "posted" /\ op[c] = "RecordsCreate"
        /\ pc[d] = "posted" /\ op[d] = "DomainsDelete"
        /\ "weight" \in DOMAIN payload[c]
        /\ "weight" \notin DOMAIN payload[d]
        /\ payload[c]["domain"] # payload[d]["domain"]

RecordsListKeys ==
    {"domain_id", "domain", "offset", "length", "sub_domain", "record_type",
     "record_line", "record_line_id", "keyword"}

\* C10: in every payload each operation-specific key has exactly one value;
\* in particular each key of a Records List payload occurs at most once
C10_SingleValued ==
    \A c \in DOMAIN pc :
        Posted(c) =>
            /\ \A k \in OwnKeys(c) : Len(payload[c][k]) = 1
            /\ op[c] = "RecordsList" =>
                  \A k \in RecordsListKeys \cap DOMAIN payload[c] :
                      Len(payload[c][k]) = 1

====
